---- MODULE Spec2Model ----
(***************************************************************************)
(* Round-based table allocation of gianverdum/roundup.                     *)
(*                                                                         *)
(* allocate_participants (src/services/allocation_service.py) is modelled  *)
(* one loop iteration per step; confirm_allocation                         *)
(* (src/routers/allocation.py) is modelled as the queries that precede the *)
(* allocation and the save that follows it.  The services that keep the    *)
(* participants and tables of an event (src/services/participant_service,  *)
(* table_service, event_service) act on the same stored rows.              *)
(***************************************************************************)
EXTENDS Integers, Sequences, FiniteSets, TLC

VARIABLES
    entry,                 \* which function the caller invoked
    event_id,              \* confirm_allocation: the path parameter
    db_events,             \* rows of the events table
    db_participants,       \* rows of the participants table
    db_tables,             \* rows of the tables table
    participants,          \* the participants list object (shuffled in place)
    tables,                \* the tables list: records [id, seats]
    max_rounds_arg,        \* the max_rounds argument: None or <<k>>
    pc,                    \* position of the call
    error,                 \* the exception that left the call, "" when none
    encounters,            \* local: participant -> set of participants met
    table_capacity,        \* local: tables[0].seats
    num_tables,            \* local: len(tables)
    max_rounds,            \* local: max_rounds after defaulting
    round_number,          \* local: the loop variable
    rounds,                \* local: the plan, round number -> table id -> list
    db_rounds,             \* rows of the rounds table
    db_table_allocations,  \* rows of the table_allocations table
    round_summaries,       \* confirm_allocation: the response body
    completed,             \* get_completed_allocations: the value returned
    requests,              \* the number of requests the client has sent
    other                  \* a second allocate_participants call: its locals

vars == <<entry, event_id, db_events, db_participants, db_tables, participants,
          tables, max_rounds_arg, pc, error, encounters, table_capacity,
          num_tables, max_rounds, round_number, rounds, db_rounds,
          db_table_allocations, round_summaries, completed, requests, other>>

(* what the allocation of one call never touches *)
outside == <<db_participants, db_tables, completed, requests, other>>

----------------------------------------------------------------------------
(* Bounds of the model *)

MaxParticipants == 3
MaxTables == 2
MaxSeats == 2
MaxRoundsArg == 2
WideParticipants == 4
WideRoundsArg == 1
FairParticipants == 2
EstParticipants == 16
EstSeats == 4
EstTables == 4
StoredCheckedIn == 2
StoredOwnTables == 1
MaxRequests == 2
TwoRunsParticipants == 2

(* Field(..., ge=2) on TableCreate.seats and TableUpdate.seats *)
MinTableSeats == 2

----------------------------------------------------------------------------
(* Python values *)

None == <<>>

Some(k) == <<k>>

SeqSet(s) == {s[i] : i \in DOMAIN s}

(* All orders random.shuffle can leave the list in. *)
Shuffles(s) == {[i \in DOMAIN s |-> s[f[i]]] : f \in Permutations(DOMAIN s)}

(* s[a:b] of a Python list, with negative and out-of-range indices. *)
PySlice(s, a, b) ==
    LET n == Len(s)
        Norm(x) == IF x < 0 THEN (IF x + n < 0 THEN 0 ELSE x + n)
                   ELSE IF x > n THEN n ELSE x
        lo == Norm(a)
        hi == Norm(b)
    IN  IF lo < hi THEN SubSeq(s, lo + 1, hi) ELSE <<>>

(* d[k] = v on a dict. *)
DictSet(d, k, v) == [x \in (DOMAIN d) \cup {k} |-> IF x = k THEN v ELSE d[x]]

(* range(1, max_rounds + 2): one iteration too many *)
InRangeOneMore(k, mr) == 1 <= k /\ k <= mr + 1

(* k in range(1, max_rounds + 1) *)
InRange(k, mr) == 1 <= k /\ k <= mr

(* a loop variable that is never advanced *)
NextRoundNumberStuck(k) == k

(* the next value of the loop variable *)
NextRoundNumber(k) == k + 1

----------------------------------------------------------------------------
(* allocate_participants *)

(* tables[0].seats if tables else 0: an empty list goes through *)
FirstTableSeatsOrZero(ts) ==
    IF Len(ts) = 0 THEN [raised |-> FALSE, value |-> 0]
    ELSE [raised |-> FALSE, value |-> ts[1].seats]

(* tables[0].seats; an empty list raises IndexError. *)
FirstTableSeats(ts) ==
    IF Len(ts) = 0 THEN [raised |-> TRUE, value |-> 0]
    ELSE [raised |-> FALSE, value |-> ts[1].seats]

(* a default of one round *)
EffectiveMaxRoundsSingle(arg, nt) == IF arg = None THEN 1 ELSE arg[1]

(* a default of num_tables + 1 *)
EffectiveMaxRoundsOneMore(arg, nt) == IF arg = None THEN nt + 1 ELSE arg[1]

(* if max_rounds is None: max_rounds = num_tables *)
EffectiveMaxRounds(arg, nt) == IF arg = None THEN nt ELSE arg[1]

(* participants[: (i + 1) * table_capacity]: the start of the slice forgotten *)
TableSliceFromFront(parts, i, cap) == PySlice(parts, 0, (i + 1) * cap)

(* participants[i * table_capacity : (i + 1) * table_capacity + 1]: one seat too many *)
TableSliceOneMore(parts, i, cap) == PySlice(parts, i * cap, (i + 1) * cap + 1)

(* participants[i * table_capacity : (i + 2) * table_capacity]: two tables' worth *)
TableSliceDouble(parts, i, cap) == PySlice(parts, i * cap, (i + 2) * cap)

(* participants[i * table_capacity : (i + 1) * table_capacity - 1]: one seat too few *)
TableSliceOneLess(parts, i, cap) == PySlice(parts, i * cap, (i + 1) * cap - 1)

(* participants[i * table_capacity : (i + 1) * table_capacity], i from 0 *)
TableSlice(parts, i, cap) == PySlice(parts, i * cap, (i + 1) * cap)

(* for i in range(num_tables - 1): the last table left out of the round *)
AllocationSkipLast(parts, ts, cap, nt) ==
    [tid \in {ts[i].id : i \in 1..(nt - 1)} |->
        TableSlice(parts, (CHOOSE i \in 1..(nt - 1) : ts[i].id = tid) - 1, cap)]

(* the allocation dict of one round: allocation[tables[i].id] = slice; a later
   table with the same id overwrites an earlier one *)
Allocation(parts, ts, cap, nt) ==
    LET ids == {ts[i].id : i \in 1..nt}
        last(tid) == CHOOSE i \in 1..nt :
                        /\ ts[i].id = tid
                        /\ \A j \in 1..nt : ts[j].id = tid => j <= i
    IN  [tid \in ids |-> TableSlice(parts, last(tid) - 1, cap)]

(* the test p1 != p2 forgotten *)
AddEncountersWithSelf(enc, parts, cap, nt) ==
    [p \in DOMAIN enc |->
        enc[p] \cup UNION {
            IF p \in SeqSet(TableSlice(parts, i, cap))
            THEN SeqSet(TableSlice(parts, i, cap))
            ELSE {} : i \in 0..(nt - 1)}]

(* encounters[p1].add(p2) for p1 # p2 at one table, for every table *)
AddEncounters(enc, parts, cap, nt) ==
    [p \in DOMAIN enc |->
        enc[p] \cup UNION {
            IF p \in SeqSet(TableSlice(parts, i, cap))
            THEN SeqSet(TableSlice(parts, i, cap)) \ {p}
            ELSE {} : i \in 0..(nt - 1)}]

(* > in place of >=: nobody can have met more than the others *)
AllEncountersMetStrict(enc, parts) ==
    \A p \in SeqSet(parts) : Cardinality(enc[p]) > Len(parts) - 1

(* the threshold one too low: len(participants) - 2 *)
AllEncountersMetOneLess(enc, parts) ==
    \A p \in SeqSet(parts) : Cardinality(enc[p]) >= Len(parts) - 2

(* all(len(encounters[p]) >= len(participants) - 1 for p in participants) *)
AllEncountersMet(enc, parts) ==
    \A p \in SeqSet(parts) : Cardinality(enc[p]) >= Len(parts) - 1

NumRounds == Cardinality(DOMAIN rounds)

AllocateStartWith(arg) ==
    /\ \/ pc = "start"
       \/ pc = "call" /\ entry = "allocate_participants"
    /\ LET first == FirstTableSeats(tables) IN
        IF first.raised
        THEN /\ pc' = "raised"
             /\ error' = "IndexError"
             /\ encounters' = [p \in SeqSet(participants) |-> {}]
             /\ UNCHANGED <<table_capacity, num_tables, max_rounds>>
        ELSE /\ encounters' = [p \in SeqSet(participants) |-> {}]
             /\ table_capacity' = first.value
             /\ num_tables' = Len(tables)
             /\ max_rounds' = EffectiveMaxRounds(arg, Len(tables))
             /\ pc' = IF InRange(1, max_rounds') THEN "loop" ELSE "returned"
             /\ UNCHANGED error
    /\ UNCHANGED outside
    /\ UNCHANGED <<entry, event_id, db_events, participants, tables,
                   max_rounds_arg, round_number, rounds, db_rounds,
                   db_table_allocations, round_summaries>>

AllocateStart == AllocateStartWith(max_rounds_arg)

AllocateRoundFrom(orders) ==
    /\ pc = "loop"
    /\ \E shuffled \in orders :
        /\ participants' = shuffled
        /\ rounds' = DictSet(rounds, round_number,
                             Allocation(shuffled, tables, table_capacity, num_tables))
        /\ encounters' = AddEncounters(encounters, shuffled, table_capacity, num_tables)
        /\ IF AllEncountersMet(encounters', shuffled)
           THEN pc' = "returned" /\ UNCHANGED round_number
           ELSE IF InRange(NextRoundNumber(round_number), max_rounds)
                THEN pc' = "loop" /\ round_number' = NextRoundNumber(round_number)
                ELSE pc' = "returned" /\ UNCHANGED round_number
    /\ UNCHANGED outside
    /\ UNCHANGED <<entry, event_id, db_events, tables, max_rounds_arg, error,
                   table_capacity, num_tables, max_rounds, db_rounds,
                   db_table_allocations, round_summaries>>

AllocateRound == AllocateRoundFrom(Shuffles(participants))

(* Some of the orders random.shuffle can leave the list in: unchanged, or two
   neighbours exchanged. *)
NeighbourShuffles(s) ==
    {s} \cup {[i \in DOMAIN s |-> IF i = k THEN s[k + 1]
                                  ELSE IF i = k + 1 THEN s[k] ELSE s[i]] :
                k \in 1..(Len(s) - 1)}

(* a round whose shuffle is one of NeighbourShuffles: runs the code can take,
   not all of them *)
AllocateRoundNeighbours == AllocateRoundFrom(NeighbourShuffles(participants))

----------------------------------------------------------------------------
(* A second call of allocate_participants, running alongside the first.  Its
   arguments and locals are the fields of the record other. *)

(* the arguments of a call and its locals before its first step *)
CallOf(parts, ts, arg) ==
    [participants |-> parts, tables |-> ts, max_rounds_arg |-> arg,
     pc |-> "call", error |-> "", encounters |-> <<>>, table_capacity |-> 0,
     num_tables |-> 0, max_rounds |-> 0, round_number |-> 1, rounds |-> <<>>]

(* one dict for all calls, once they record the same participants *)
SharedEncounters(run) ==
    IF DOMAIN encounters = DOMAIN run.encounters THEN encounters
    ELSE run.encounters

(* encounters = {p: set() for p in participants}: a dict of the call itself *)
OwnEncounters(run) == run.encounters

(* lines 29-36 and the first test of the loop, for the call run *)
StartOf(run) ==
    LET first == FirstTableSeats(run.tables) IN
    IF first.raised
    THEN [run EXCEPT !.pc = "raised", !.error = "IndexError",
                     !.encounters = [p \in SeqSet(run.participants) |-> {}]]
    ELSE LET mr == EffectiveMaxRounds(run.max_rounds_arg, Len(run.tables)) IN
         [run EXCEPT !.encounters = [p \in SeqSet(run.participants) |-> {}],
                     !.table_capacity = first.value,
                     !.num_tables = Len(run.tables),
                     !.max_rounds = mr,
                     !.pc = IF InRange(1, mr) THEN "loop" ELSE "returned"]

(* one iteration of the round loop of the call run, its shuffle leaving the
   list as shuffled *)
RoundOf(run, shuffled) ==
    LET enc == AddEncounters(OwnEncounters(run), shuffled, run.table_capacity,
                             run.num_tables)
        more == /\ ~AllEncountersMet(enc, shuffled)
                /\ InRange(NextRoundNumber(run.round_number), run.max_rounds)
    IN  [run EXCEPT !.participants = shuffled,
                    !.rounds = DictSet(run.rounds, run.round_number,
                                       Allocation(shuffled, run.tables,
                                                  run.table_capacity, run.num_tables)),
                    !.encounters = enc,
                    !.round_number = IF more THEN NextRoundNumber(run.round_number)
                                     ELSE run.round_number,
                    !.pc = IF more THEN "loop" ELSE "returned"]

OtherStart ==
    /\ other # None
    /\ other.pc = "call"
    /\ other' = StartOf(other)
    /\ UNCHANGED <<entry, event_id, db_events, db_participants, db_tables,
                   participants, tables, max_rounds_arg, pc, error, encounters,
                   table_capacity, num_tables, max_rounds, round_number, rounds,
                   db_rounds, db_table_allocations, round_summaries, completed,
                   requests>>

OtherRound ==
    /\ other # None
    /\ other.pc = "loop"
    /\ \E shuffled \in Shuffles(other.participants) :
          other' = RoundOf(other, shuffled)
    /\ UNCHANGED <<entry, event_id, db_events, db_participants, db_tables,
                   participants, tables, max_rounds_arg, pc, error, encounters,
                   table_capacity, num_tables, max_rounds, round_number, rounds,
                   db_rounds, db_table_allocations, round_summaries, completed,
                   requests>>

----------------------------------------------------------------------------
(* calculate_rounds_needed, the round-count estimator *)

(* ceil(a / b) for a >= 0, b >= 1 *)
CeilDiv(a, b) == (a + b - 1) \div b

(* floor instead of ceil *)
EstimateRoundsFloor(n, s, tc) == IF n <= s * tc THEN 1 ELSE (n \div s) \div tc

(* the everyone-fits case forgotten *)
EstimateRoundsNoFit(n, s, tc) == CeilDiv(n \div s, tc)

(* 1 when everyone fits in one round, else ceil((n // s) / table_count) *)
EstimateRounds(n, s, tc) == IF n <= s * tc THEN 1 ELSE CeilDiv(n \div s, tc)

(* required_rounds = calculate_rounds_needed(len(participants), seats_per_table,
   table_quantity); the allocation test passes it on as max_rounds *)
CalculateRoundsNeeded ==
    /\ pc = "call"
    /\ entry \in {"calculate_rounds_needed", "estimated_allocation"}
    /\ IF Len(tables) < 1 \/ FirstTableSeats(tables).value < 1
       THEN /\ pc' = "raised"
            /\ error' = "InvalidArgument"
            /\ UNCHANGED max_rounds_arg
       ELSE /\ max_rounds_arg' =
                  Some(EstimateRounds(Len(participants), tables[1].seats, Len(tables)))
            /\ pc' = IF entry = "estimated_allocation" THEN "start" ELSE "estimated"
            /\ UNCHANGED error
    /\ UNCHANGED outside
    /\ UNCHANGED <<entry, event_id, db_events, participants, tables,
                   encounters, table_capacity, num_tables, max_rounds,
                   round_number, rounds, db_rounds, db_table_allocations,
                   round_summaries>>

----------------------------------------------------------------------------
(* confirm_allocation *)

(* db.query(Model).filter(...).all() is SelectSeq: the rows that pass, in
   stored order *)

(* .first() of the rows that pass: None when there is none *)
First(passing) ==
    IF passing = <<>> THEN None ELSE Some(passing[1])

(* the filter on Event.id forgotten: the first event there is *)
EventByIdUnfiltered(evs, eid) ==
    IF evs = <<>> THEN None ELSE Some(evs[1])

(* filter(Event.id == event_id).first() *)
EventById(evs, eid) ==
    LET Passes(e) == e.id = eid IN First(SelectSeq(evs, Passes))

(* every participant of the event, checked in or not *)
CheckedInOrNot(rows, eid) ==
    LET Passes(r) == r.event_id = eid IN SelectSeq(rows, Passes)

(* filter(Participant.event_id == event_id, Participant.is_present.is_(True)) *)
CheckedIn(rows, eid) ==
    LET Passes(r) == r.event_id = eid /\ r.is_present IN SelectSeq(rows, Passes)

(* filter(Table.event_id == event_id).all() *)
TablesOf(rows, eid) ==
    LET Passes(r) == r.event_id = eid IN SelectSeq(rows, Passes)

(* [p.id for p in participants] *)
IdsOf(rows) == [i \in DOMAIN rows |-> rows[i].id]

(* the event lookup and the two queries before the allocation *)
ConfirmAllocationQuery ==
    /\ pc = "call"
    /\ entry = "confirm_allocation"
    /\ IF EventById(db_events, event_id) = None
       THEN /\ pc' = "responded"
            /\ error' = "HTTP404"
            /\ UNCHANGED <<participants, tables>>
       ELSE IF CheckedIn(db_participants, event_id) = <<>>
            THEN /\ pc' = "responded"
                 /\ error' = "HTTP400"
                 /\ UNCHANGED <<participants, tables>>
            ELSE /\ participants' = IdsOf(CheckedIn(db_participants, event_id))
                 /\ tables' = TablesOf(db_tables, event_id)
                 /\ pc' = "start"
                 /\ UNCHANGED error
    /\ UNCHANGED outside
    /\ UNCHANGED <<entry, event_id, db_events, max_rounds_arg, encounters,
                   table_capacity, num_tables, max_rounds, round_number, rounds,
                   db_rounds, db_table_allocations, round_summaries>>

(* the round numbers of the plan in insertion order *)
RoundKeys(plan) == [k \in 1..Cardinality(DOMAIN plan) |->
                      CHOOSE r \in DOMAIN plan :
                          Cardinality({x \in DOMAIN plan : x < r}) = k - 1]

(* the table ids of an allocation in insertion order *)
TableKeys(ts) ==
    LET firsts == {i \in DOMAIN ts : \A j \in 1..(i - 1) : ts[j].id # ts[i].id}
    IN  [k \in 1..Cardinality(firsts) |->
            ts[CHOOSE i \in firsts : Cardinality({j \in firsts : j < i}) = k - 1].id]

RECURSIVE Concat(_)
Concat(ss) == IF Len(ss) = 0 THEN <<>> ELSE Head(ss) \o Concat(Tail(ss))

(* the TableAllocation rows added for one round *)
SeatRows(rid, allocation, keys) ==
    Concat([k \in DOMAIN keys |->
              [j \in DOMAIN allocation[keys[k]] |->
                  [round_id |-> rid, table_id |-> keys[k],
                   participant_id |-> allocation[keys[k]][j]]]])

(* RoundSummary(round_number, allocations=[TableAllocationSummary ...]) *)
Summary(rn, allocation, keys) ==
    [round_number |-> rn,
     allocations |-> [k \in DOMAIN keys |->
                        [table_id |-> keys[k], participant_ids |-> allocation[keys[k]]]]]

(* the save loop, the commit and the response *)
ConfirmAllocationSave ==
    /\ pc = "returned"
    /\ entry = "confirm_allocation"
    /\ \E rks \in {RoundKeys(rounds)}, tks \in {TableKeys(tables)}, base \in {Len(db_rounds)} :
           /\ db_rounds' = db_rounds \o
                  [k \in DOMAIN rks |->
                      [id |-> base + k, event_id |-> event_id, round_number |-> rks[k]]]
           /\ db_table_allocations' = db_table_allocations \o
                  Concat([k \in DOMAIN rks |-> SeatRows(base + k, rounds[rks[k]], tks)])
           /\ round_summaries' = [k \in DOMAIN rks |-> Summary(rks[k], rounds[rks[k]], tks)]
    /\ pc' = "responded"
    /\ UNCHANGED outside
    /\ UNCHANGED <<entry, event_id, db_events, participants, tables,
                   max_rounds_arg, error, encounters, table_capacity, num_tables,
                   max_rounds, round_number, rounds>>

----------------------------------------------------------------------------
(* get_completed_allocations *)

RECURSIVE ByRoundNumber(_)
(* order_by(Round.round_number): ascending, equal numbers in stored order *)
ByRoundNumber(rows) ==
    IF rows = <<>> THEN <<>>
    ELSE LET least == CHOOSE i \in DOMAIN rows :
                        /\ \A j \in DOMAIN rows :
                              rows[i].round_number <= rows[j].round_number
                        /\ \A j \in 1..(i - 1) :
                              rows[j].round_number # rows[i].round_number
             Rest(r) == r # rows[least]
         IN  <<rows[least]>> \o ByRoundNumber(SelectSeq(rows, Rest))

(* filter(Round.event_id == event_id).order_by(Round.round_number).all() *)
RoundsOf(rows, eid) ==
    LET Passes(r) == r.event_id = eid IN ByRoundNumber(SelectSeq(rows, Passes))

(* filter(TableAllocation.round_id == round_entry.id).all() *)
AllocationsOf(rows, rid) ==
    LET Passes(a) == a.round_id = rid IN SelectSeq(rows, Passes)

(* one RoundSummary per Round row, one TableAllocationSummary per
   TableAllocation row: participant_ids=[allocation.participant_id] *)
CompletedAllocations(eid) ==
    LET found == RoundsOf(db_rounds, eid) IN
    [k \in DOMAIN found |->
        [round_number |-> found[k].round_number,
         allocations |->
            LET seats == AllocationsOf(db_table_allocations, found[k].id) IN
            [j \in DOMAIN seats |->
                [table_id |-> seats[j].table_id,
                 participant_ids |-> <<seats[j].participant_id>>]]]]

GetCompletedAllocations ==
    /\ pc = "call"
    /\ entry = "get_completed_allocations"
    /\ completed' = CompletedAllocations(event_id)
    /\ pc' = "responded"
    /\ UNCHANGED <<entry, event_id, db_events, db_participants, db_tables,
                   participants, tables, max_rounds_arg, error, encounters,
                   table_capacity, num_tables, max_rounds, round_number, rounds,
                   db_rounds, db_table_allocations, round_summaries, requests,
                   other>>

(* the client, answered, sends its next request for the same event; it keeps
   the answers it has *)
ClientRequest(e) ==
    /\ pc \in {"responded", "raised"}
    /\ requests < MaxRequests
    /\ requests' = requests + 1
    /\ entry' = e
    /\ pc' = "call"
    /\ error' = ""
    /\ participants' = <<>>
    /\ tables' = <<>>
    /\ encounters' = <<>>
    /\ table_capacity' = 0
    /\ num_tables' = 0
    /\ max_rounds' = 0
    /\ round_number' = 1
    /\ rounds' = <<>>
    /\ UNCHANGED <<event_id, db_events, db_participants, db_tables,
                   max_rounds_arg, db_rounds, db_table_allocations,
                   round_summaries, completed, other>>

ConfirmAgain == ClientRequest("confirm_allocation")

AskCompleted == ClientRequest("get_completed_allocations")

----------------------------------------------------------------------------
(* Inputs *)

Ids(n) == [i \in 1..n |-> i]

(* table rows: distinct primary keys, seats per table *)
TableRows(seats) == [i \in DOMAIN seats |-> [id |-> 10 + i, seats |-> seats[i]]]

(* tables that share one seats value *)
UniformTables(seatValues) ==
    {TableRows([i \in 1..n |-> s]) : n \in 0..MaxTables, s \in seatValues}

(* tables with their own seats values *)
MixedTables(seatValues) ==
    UNION {{TableRows(seats) : seats \in [1..n -> seatValues]} : n \in 0..MaxTables}

MaxRoundsArgs(maxArg) == {None} \cup {Some(k) : k \in (-1)..maxArg}

(* an events row *)
EventRow(eid, maxSeats) == [id |-> eid, max_seats_per_table |-> maxSeats]

(* a participants row; email and whatsapp are numbered, not spelled *)
ParticipantRow(pid, eid, present, email, whatsapp) ==
    [id |-> pid, event_id |-> eid, is_present |-> present,
     email |-> email, whatsapp |-> whatsapp]

(* the participants rows of ids 1..n, all of one event and checked in *)
CheckedInRows(n, eid) == [i \in 1..n |-> ParticipantRow(i, eid, TRUE, i, i)]

(* the tables rows of one event: table_number 1.. as create_tables numbers them *)
StoredTables(ts, eid) ==
    [i \in DOMAIN ts |-> [id |-> ts[i].id, event_id |-> eid,
                          table_number |-> i, seats |-> ts[i].seats]]

(* the locals of a call before its first step, and nothing else going on *)
Fresh ==
    /\ pc = "call"
    /\ error = ""
    /\ encounters = <<>>
    /\ table_capacity = 0
    /\ num_tables = 0
    /\ max_rounds = 0
    /\ round_number = 1
    /\ rounds = <<>>
    /\ round_summaries = <<>>
    /\ completed = <<>>
    /\ requests = 1
    /\ other = None

InitWith(maxParticipants, directTables, storedTables, args) ==
    /\ event_id = 1
    /\ \/ /\ entry = "allocate_participants"
          /\ participants \in {Ids(n) : n \in 0..maxParticipants}
          /\ tables \in directTables
          /\ db_events = <<EventRow(1, MaxSeats)>>
          /\ db_participants = <<>>
          /\ db_tables = <<>>
       \/ /\ entry = "confirm_allocation"
          /\ participants = <<>>
          /\ tables = <<>>
          /\ db_events \in {<<>>, <<EventRow(1, MaxSeats)>>}
          /\ db_participants \in {CheckedInRows(n, 1) : n \in 0..maxParticipants}
          /\ db_tables \in {StoredTables(ts, 1) : ts \in storedTables}
    /\ max_rounds_arg \in args
    /\ db_rounds = <<>>
    /\ db_table_allocations = <<>>
    /\ Fresh

(* Tables of one seats value, as the allocator assumes. *)
Init ==
    InitWith(MaxParticipants,
             UniformTables((-1)..MaxSeats),
             UniformTables(MinTableSeats..MaxSeats),
             MaxRoundsArgs(MaxRoundsArg))

(* Tables with their own seats values, each at least 1. *)
InitMixed ==
    InitWith(WideParticipants,
             MixedTables(1..MaxSeats),
             UniformTables(MinTableSeats..MaxSeats),
             {Some(k) : k \in 0..WideRoundsArg})

Next ==
    \/ AllocateStart
    \/ AllocateRound
    \/ ConfirmAllocationQuery
    \/ ConfirmAllocationSave

Spec == Init /\ [][Next]_vars

SpecMixed == InitMixed /\ [][Next]_vars

(* The inputs of the runs checked for termination. *)
InitFair ==
    InitWith(FairParticipants,
             UniformTables((-1)..MaxSeats),
             UniformTables(MinTableSeats..MaxSeats),
             MaxRoundsArgs(MaxRoundsArg))

(* The call runs to completion: it is synchronous and nothing suspends it. *)
FairSpec == InitFair /\ [][Next]_vars /\ WF_vars(Next)

(* An input fixed by its caller, before any step of it. *)
InitCall(e, parts, ts, arg) ==
    /\ entry = e
    /\ event_id = 1
    /\ db_events = <<EventRow(1, MaxSeats)>>
    /\ db_participants = <<>>
    /\ db_tables = <<>>
    /\ participants = parts
    /\ tables = ts
    /\ max_rounds_arg = arg
    /\ db_rounds = <<>>
    /\ db_table_allocations = <<>>
    /\ Fresh

(* 3 tables of 2 seats, participants 1..6, max_rounds = 5 *)
InitScenarioA ==
    InitCall("allocate_participants", Ids(6), TableRows(<<2, 2, 2>>), Some(5))

NextScenarioA ==
    \/ AllocateStart
    \/ AllocateRoundNeighbours

(* Scenario A under some of its shuffles: every behaviour is a run of the
   code. *)
SpecScenarioA == InitScenarioA /\ [][NextScenarioA]_vars

(* The estimator alone, on its valid inputs. *)
InitEstimator ==
    \E n \in 0..EstParticipants, s \in 1..EstSeats, tc \in 1..EstTables :
        InitCall("calculate_rounds_needed", Ids(n),
                 TableRows([i \in 1..tc |-> s]), None)

NextEstimator == CalculateRoundsNeeded

SpecEstimator == InitEstimator /\ [][NextEstimator]_vars

(* The allocation test: the estimate is passed on as max_rounds. *)
InitEstimated ==
    \E n \in 0..MaxParticipants, s \in 1..MaxSeats, tc \in 1..MaxTables :
        InitCall("estimated_allocation", Ids(n),
                 TableRows([i \in 1..tc |-> s]), None)

NextEstimated ==
    \/ CalculateRoundsNeeded
    \/ AllocateStart
    \/ AllocateRound

SpecEstimated == InitEstimated /\ [][NextEstimated]_vars

(* Rows the call must leave out: a participant of the event who is not checked
   in, a checked-in participant of another event, a table of another event. *)
StrangerParticipants(n) ==
    <<ParticipantRow(n + 1, 1, FALSE, n + 1, n + 1),
      ParticipantRow(n + 2, 2, TRUE, n + 2, n + 2)>>

StrangerTables(ts) ==
    <<[id |-> 10 + Len(ts) + 1, event_id |-> 2, table_number |-> 1,
       seats |-> MinTableSeats]>>

(* confirm_allocation on stored rows, then further requests of the client *)
InitStored ==
    /\ entry = "confirm_allocation"
    /\ event_id = 1
    /\ participants = <<>>
    /\ tables = <<>>
    /\ max_rounds_arg = None
    /\ db_events \in {<<EventRow(2, MaxSeats)>>,
                      <<EventRow(1, MaxSeats), EventRow(2, MaxSeats)>>}
    /\ \E n \in 0..StoredCheckedIn, k \in 0..StoredOwnTables,
          s \in MinTableSeats..MaxSeats, strangers \in BOOLEAN :
          LET own == TableRows([i \in 1..k |-> s]) IN
          /\ db_participants = CheckedInRows(n, 1) \o
                  (IF strangers THEN StrangerParticipants(n) ELSE <<>>)
          /\ db_tables = StoredTables(own, 1) \o
                  (IF strangers THEN StrangerTables(own) ELSE <<>>)
    /\ db_rounds = <<>>
    /\ db_table_allocations = <<>>
    /\ Fresh

NextStored ==
    \/ ConfirmAllocationQuery
    \/ AllocateStart
    \/ AllocateRound
    \/ ConfirmAllocationSave
    \/ ConfirmAgain
    \/ AskCompleted
    \/ GetCompletedAllocations

SpecStored == InitStored /\ [][NextStored]_vars

(* Two calls, each with its own lists: the first on any of the small inputs,
   the second on participants 1, 2 and two tables of one seat. *)
InitTwoRuns ==
    /\ entry = "allocate_participants"
    /\ event_id = 1
    /\ db_events = <<EventRow(1, MaxSeats)>>
    /\ db_participants = <<>>
    /\ db_tables = <<>>
    /\ participants \in {Ids(n) : n \in 0..TwoRunsParticipants}
    /\ tables \in UniformTables(1..MaxSeats)
    /\ max_rounds_arg = None
    /\ db_rounds = <<>>
    /\ db_table_allocations = <<>>
    /\ pc = "call"
    /\ error = ""
    /\ encounters = <<>>
    /\ table_capacity = 0
    /\ num_tables = 0
    /\ max_rounds = 0
    /\ round_number = 1
    /\ rounds = <<>>
    /\ round_summaries = <<>>
    /\ completed = <<>>
    /\ requests = 1
    /\ other = CallOf(Ids(2), TableRows(<<1, 1>>), None)

NextTwoRuns ==
    \/ AllocateStart
    \/ AllocateRound
    \/ OtherStart
    \/ OtherRound

(* the two calls interleaved round by round, in any order *)
SpecTwoRuns == InitTwoRuns /\ [][NextTwoRuns]_vars

----------------------------------------------------------------------------
(* Properties *)

(* the call returned a plan to its caller *)
PlanReturned == pc = "returned" \/ (pc = "responded" /\ error = "")

Everyone == SeqSet(participants)

(* the seats (table id, position) participant p holds in one round *)
SeatsOf(allocation, p) ==
    {x \in UNION {{<<tid, j>> : j \in DOMAIN allocation[tid]} : tid \in DOMAIN allocation} :
        allocation[x[1]][x[2]] = p}

(* p and q sit at one table in the round *)
CoSeated(allocation, p, q) ==
    \E tid \in DOMAIN allocation :
        {p, q} \subseteq SeqSet(allocation[tid])

(* every unordered pair of distinct participants co-seated in some round 1..k *)
AllPairsCoSeated(k) ==
    \A p, q \in Everyone :
        p # q => \E r \in DOMAIN rounds : r <= k /\ CoSeated(rounds[r], p, q)

AllSeatsAtLeastOne == \A i \in DOMAIN tables : tables[i].seats >= 1

(* C1: in every round of a returned plan each participant holds at most one
   seat: at most one table's list, at most once in it. *)
NoSameRoundDuplication ==
    PlanReturned =>
        \A r \in DOMAIN rounds : \A p \in Everyone :
            Cardinality(SeatsOf(rounds[r], p)) <= 1

NoSameRoundDuplicationWitness ==
    /\ PlanReturned
    /\ \E r \in DOMAIN rounds : \E t1, t2 \in DOMAIN rounds[r] :
          t1 # t2 /\ Len(rounds[r][t1]) >= 1 /\ Len(rounds[r][t2]) >= 1

(* C2 as stated: with every seats value >= 1, no table of a returned plan
   seats more participants than its own seats value. *)
CapacityOfEachTable ==
    (PlanReturned /\ AllSeatsAtLeastOne) =>
        \A r \in DOMAIN rounds : \A i \in DOMAIN tables :
            Len(rounds[r][tables[i].id]) <= tables[i].seats

(* C2 amended: with every seats value >= 1, no table of a returned plan seats
   more participants than the first table's seats value. *)
CapacityOfFirstTable ==
    (PlanReturned /\ AllSeatsAtLeastOne) =>
        \A r \in DOMAIN rounds : \A i \in DOMAIN tables :
            Len(rounds[r][tables[i].id]) <= tables[1].seats

CapacityOfFirstTableWitness ==
    /\ PlanReturned
    /\ AllSeatsAtLeastOne
    /\ \E r \in DOMAIN rounds : \E i \in DOMAIN tables :
          /\ i >= 2
          /\ tables[i].seats # tables[1].seats
          /\ Len(rounds[r][tables[i].id]) = tables[1].seats

(* C3: in a returned plan no two participants sit together in two different
   rounds (seats >= 1 and enough seats for everyone). *)
NoRepeatedEncounter ==
    (/\ PlanReturned
     /\ AllSeatsAtLeastOne
     /\ Len(participants) <= table_capacity * num_tables) =>
        \A r1, r2 \in DOMAIN rounds : \A p, q \in Everyone :
            (r1 < r2 /\ p # q) =>
                ~(CoSeated(rounds[r1], p, q) /\ CoSeated(rounds[r2], p, q))

(* C4: with an explicit max_rounds >= 0 and a non-empty table list the plan
   never holds more than max_rounds rounds. *)
BoundedRounds ==
    (max_rounds_arg # None /\ max_rounds_arg[1] >= 0 /\ Len(tables) > 0) =>
        NumRounds <= max_rounds_arg[1]

BoundedRoundsWitness ==
    /\ PlanReturned
    /\ max_rounds_arg = Some(2)
    /\ NumRounds = 2
    /\ ~AllPairsCoSeated(NumRounds)

(* C5: no round follows a round at which all pairs have been co-seated, and a
   returned plan shorter than max_rounds has all pairs co-seated. *)
StopsAtCoverageOrCap ==
    /\ \A k \in DOMAIN rounds : k < NumRounds => ~AllPairsCoSeated(k)
    /\ (PlanReturned /\ NumRounds < max_rounds) => AllPairsCoSeated(NumRounds)

StopsAtCoverageOrCapWitness ==
    /\ PlanReturned
    /\ Len(participants) >= 2
    /\ NumRounds >= 1
    /\ NumRounds < max_rounds
    /\ AllPairsCoSeated(NumRounds)

(* C6: a call with a non-empty table list terminates and returns a plan,
   whether or not all pairs can ever be co-seated (confirm_allocation reaches
   the call unless it answers 404 or 400 first). *)
AllocateTerminates ==
    <>(PlanReturned \/ (pc = "raised" /\ Len(tables) = 0)
         \/ error \in {"HTTP404", "HTTP400"})

AllocateTerminatesWitness ==
    /\ PlanReturned
    /\ Len(tables) > 0
    /\ Len(participants) > table_capacity * num_tables
    /\ NumRounds = max_rounds
    /\ ~AllPairsCoSeated(NumRounds)

(* C7: zero participants and a non-empty table list give a plan with no
   rounds. *)
EmptyParticipantsEmptyPlan ==
    (PlanReturned /\ Len(participants) = 0 /\ Len(tables) > 0 /\ AllSeatsAtLeastOne) =>
        NumRounds = 0

(* C8: a table with seats <= 0 makes the call end in an error raised to the
   caller with no round computed; it never returns a plan. *)
NonPositiveSeatsRaise ==
    ((\E i \in DOMAIN tables : tables[i].seats <= 0)
        /\ pc \in {"returned", "raised", "responded"}) =>
        (pc = "raised" /\ NumRounds = 0)

(* C9: an empty table list makes allocate_participants raise before any round
   is computed, and confirm_allocation then stores no Round and no
   TableAllocation. *)
EmptyTablesRaise ==
    Len(tables) = 0 =>
        /\ pc \in {"call", "start", "raised", "responded"}
        /\ (pc = "responded" => error \in {"HTTP404", "HTTP400"})
        /\ (pc = "raised" => error = "IndexError")
        /\ NumRounds = 0
        /\ db_rounds = <<>>
        /\ db_table_allocations = <<>>

EmptyTablesRaiseWitness ==
    /\ Len(tables) = 0
    /\ entry = "confirm_allocation"
    /\ Len(participants) > 0
    /\ pc = "raised"
    /\ error = "IndexError"

(* C10: a call with max_rounds omitted takes exactly the steps of the call with
   max_rounds = len(tables), and the other way round; so its plan never has
   more rounds than there are tables. *)
MaxRoundsDefaultsToTableCount ==
    /\ [][AllocateStart =>
            /\ (max_rounds_arg = None => AllocateStartWith(Some(Len(tables))))
            /\ (max_rounds_arg = Some(Len(tables)) => AllocateStartWith(None))]_vars
    /\ []((max_rounds_arg = None /\ (pc = "loop" \/ PlanReturned)) =>
            (max_rounds = Len(tables) /\ NumRounds <= Len(tables)))

MaxRoundsDefaultsToTableCountWitness ==
    /\ PlanReturned
    /\ max_rounds_arg = None
    /\ NumRounds = Len(tables)
    /\ NumRounds >= 2

(* the unordered pairs recorded in an encounter record *)
EncounterPairs(enc) == UNION {{{p, q} : q \in enc[p]} : p \in DOMAIN enc}

(* C11: round to round the number of unordered pairs in the encounter record
   never decreases; it never exceeds n*(n-1)/2, and nobody is recorded as having
   met themselves. *)
EncountersMonotone ==
    /\ [][Cardinality(EncounterPairs(encounters'))
            >= Cardinality(EncounterPairs(encounters))]_vars
    /\ [](/\ Cardinality(EncounterPairs(encounters))
               <= (Len(participants) * (Len(participants) - 1)) \div 2
          /\ \A p \in DOMAIN encounters : p \notin encounters[p])

EncountersMonotoneWitness ==
    /\ NumRounds >= 2
    /\ Cardinality(EncounterPairs(encounters)) >= 2
    /\ \E p \in Everyone : \E r \in DOMAIN rounds :
          r >= 2 /\ \E q \in encounters[p] :
              CoSeated(rounds[r], p, q) /\ ~CoSeated(rounds[1], p, q)

(* C12: after the call returns, the caller's participants list has the same
   elements in the same order as before the call (every call starts from the
   list Ids(n)), and the table descriptors are the ones passed in. *)
ArgumentsUnchanged ==
    (pc = "returned" /\ AllSeatsAtLeastOne) =>
        /\ participants = Ids(Len(participants))
        /\ \A i \in DOMAIN tables : tables[i].id = 10 + i

(* C13: with 3 tables of 2 seats, participants 1..6 and max_rounds = 5, in the
   returned plan every one of the 15 unordered pairs of participants has been
   co-seated by the final round. *)
ScenarioACoversAllPairs ==
    pc = "returned" =>
        /\ NumRounds <= 5
        /\ AllPairsCoSeated(NumRounds)

(* every table has the seats value s *)
AllSeats(s) == \A i \in DOMAIN tables : tables[i].seats = s

(* C14: when all tables share one seats value s (a count, s >= 0) and there are
   at least (number of tables) * s participants, every round of the plan has an
   entry for every table and every table's list has exactly s participants. *)
FullTablesEveryRound ==
    \A s \in 0..(Len(participants) + 1) :
        (AllSeats(s) /\ Len(participants) >= Len(tables) * s) =>
            \A r \in DOMAIN rounds :
                /\ DOMAIN rounds[r] = {tables[i].id : i \in DOMAIN tables}
                /\ \A i \in DOMAIN tables : Len(rounds[r][tables[i].id]) = s

FullTablesEveryRoundWitness ==
    /\ PlanReturned
    /\ Len(tables) >= 2
    /\ AllSeats(1)
    /\ Len(participants) >= Len(tables)
    /\ NumRounds >= 2

(* C15: with a single table whose seats value is at least the number n >= 1 of
   participants, and max_rounds omitted or >= 1, the returned plan has exactly
   one round, and that round seats all n participants at the table. *)
SingleTableOneRound ==
    ( /\ PlanReturned
      /\ Len(tables) = 1
      /\ Len(participants) >= 1
      /\ tables[1].seats >= Len(participants)
      /\ (max_rounds_arg = None \/ max_rounds_arg[1] >= 1) ) =>
        /\ DOMAIN rounds = {1}
        /\ DOMAIN rounds[1] = {tables[1].id}
        /\ Len(rounds[1][tables[1].id]) = Len(participants)
        /\ SeqSet(rounds[1][tables[1].id]) = Everyone

SingleTableOneRoundWitness ==
    /\ pc = "returned"
    /\ Len(tables) = 1
    /\ Len(participants) >= 2
    /\ tables[1].seats >= Len(participants)
    /\ max_rounds_arg # None
    /\ max_rounds_arg[1] >= 2
    /\ NumRounds = 1

(* the number of seats taken in one round, over all its tables *)
SeatedCount(allocation) ==
    Cardinality(UNION {{<<tid, j>> : j \in DOMAIN allocation[tid]} :
                          tid \in DOMAIN allocation})

(* C16: with equal-capacity tables (seats s >= 1), more participants than the
   total capacity and max_rounds omitted, the returned plan has exactly as many
   rounds as there are tables, and no round seats more than the total
   capacity. *)
OverCapacityRunsTableCountRounds ==
    \A s \in 1..(Len(participants) + 1) :
        ( /\ PlanReturned
          /\ max_rounds_arg = None
          /\ AllSeats(s)
          /\ Len(participants) > Len(tables) * s ) =>
            /\ DOMAIN rounds = 1..Len(tables)
            /\ \A r \in DOMAIN rounds : SeatedCount(rounds[r]) <= Len(tables) * s

OverCapacityRunsTableCountRoundsWitness ==
    /\ PlanReturned
    /\ max_rounds_arg = None
    /\ Len(tables) >= 2
    /\ AllSeats(1)
    /\ Len(participants) > Len(tables)
    /\ NumRounds = Len(tables)
    /\ \A r \in DOMAIN rounds : SeatedCount(rounds[r]) = Len(tables)

(* the estimator's inputs and its result, once it has returned *)
EstimatorReturned == pc = "estimated"

EstimatorCount == Len(participants)

EstimatorSeats == tables[1].seats

EstimatorTables == Len(tables)

EstimatorResult == max_rounds_arg[1]

(* C17: for participant_count >= 0, seats_per_table >= 1, table_count >= 1 the
   estimator returns 1 when participant_count <= seats_per_table * table_count
   and otherwise ceil(g / table_count), g = participant_count // seats_per_table
   (the least r with r * table_count >= g, g the greatest with
   g * seats_per_table <= participant_count); estimate(16, 4, 4) = 1. *)
EstimatorValue ==
    EstimatorReturned =>
        /\ EstimatorCount <= EstimatorSeats * EstimatorTables => EstimatorResult = 1
        /\ EstimatorCount > EstimatorSeats * EstimatorTables =>
              \E g \in 0..EstimatorCount :
                  /\ g * EstimatorSeats <= EstimatorCount
                  /\ (g + 1) * EstimatorSeats > EstimatorCount
                  /\ EstimatorResult * EstimatorTables >= g
                  /\ (EstimatorResult - 1) * EstimatorTables < g
        /\ (EstimatorCount = 16 /\ EstimatorSeats = 4 /\ EstimatorTables = 4) =>
              EstimatorResult = 1

EstimatorValueWitness ==
    /\ EstimatorReturned
    /\ EstimatorCount > EstimatorSeats * EstimatorTables
    /\ EstimatorCount % EstimatorSeats # 0
    /\ (EstimatorCount \div EstimatorSeats) % EstimatorTables # 0
    /\ EstimatorResult >= 2

(* C18: for participant_count >= 0, seats_per_table >= 1, table_count >= 1 the
   estimator returns an integer strictly greater than zero. *)
EstimatorPositive ==
    /\ pc # "raised"
    /\ EstimatorReturned => (EstimatorResult \in Int /\ EstimatorResult > 0)

EstimatorPositiveWitness ==
    /\ EstimatorReturned
    /\ EstimatorCount = 0
    /\ EstimatorResult = 1

(* C19: for n >= 2 participants and equal-capacity tables (seats >= 1, at least
   one table), whenever every unordered pair has been co-seated within the
   rounds run so far, at least estimate(n, seats, table count) rounds have
   run. *)
EstimatorIsLowerBound ==
    ( /\ Len(participants) >= 2
      /\ Len(tables) >= 1
      /\ AllSeats(tables[1].seats)
      /\ tables[1].seats >= 1
      /\ AllPairsCoSeated(NumRounds) ) =>
        NumRounds >= EstimateRounds(Len(participants), tables[1].seats, Len(tables))

EstimatorIsLowerBoundWitness ==
    /\ PlanReturned
    /\ Len(participants) >= 2
    /\ Len(tables) >= 2
    /\ AllSeats(tables[1].seats)
    /\ tables[1].seats >= 1
    /\ AllPairsCoSeated(NumRounds)
    /\ NumRounds = EstimateRounds(Len(participants), tables[1].seats, Len(tables))

(* C20: in a plan returned with max_rounds set to the estimator's value for
   (participant count, seats per table, table count), no non-empty table group
   occurs more than once across all rounds and tables. *)
NoRepeatedTableGroup ==
    (pc = "returned" /\ entry = "estimated_allocation") =>
        \A r1, r2 \in DOMAIN rounds :
            \A t1 \in DOMAIN rounds[r1], t2 \in DOMAIN rounds[r2] :
                ( /\ <<r1, t1>> # <<r2, t2>>
                  /\ Len(rounds[r1][t1]) >= 1 ) =>
                    SeqSet(rounds[r1][t1]) # SeqSet(rounds[r2][t2])

(* confirm_allocation has answered with its summaries *)
ConfirmSucceeded ==
    pc = "responded" /\ error = "" /\ entry = "confirm_allocation"

(* the TableAllocation rows of the event's rounds numbered rn that seat
   participant p at table tid *)
SeatRecords(rn, tid, p) ==
    {j \in DOMAIN db_table_allocations :
        /\ db_table_allocations[j].table_id = tid
        /\ db_table_allocations[j].participant_id = p
        /\ \E i \in DOMAIN db_rounds :
              /\ db_rounds[i].id = db_table_allocations[j].round_id
              /\ db_rounds[i].event_id = event_id
              /\ db_rounds[i].round_number = rn}

(* C21: after a successful confirm_allocation, whatever came before it, the
   Round records stored for the event are exactly the rounds the call returned
   (same count, one record per returned round number), and for every returned
   round, table and participant there is exactly one TableAllocation record
   iff the participant is in that table's list. *)
StoredRoundsAreTheReturnedRounds ==
    ConfirmSucceeded =>
        /\ Len(RoundsOf(db_rounds, event_id)) = Len(round_summaries)
        /\ \A k \in DOMAIN round_summaries :
              Cardinality({i \in DOMAIN db_rounds :
                  /\ db_rounds[i].event_id = event_id
                  /\ db_rounds[i].round_number = round_summaries[k].round_number}) = 1
        /\ \A r \in DOMAIN rounds : \A tid \in DOMAIN rounds[r] :
              \A p \in SeqSet(IdsOf(db_participants)) :
                  Cardinality(SeatRecords(r, tid, p)) =
                      IF p \in SeqSet(rounds[r][tid]) THEN 1 ELSE 0

(* C22: after a successful confirm_allocation with max_rounds omitted, every
   checked-in participant of the event appears in at least one TableAllocation
   of the event's rounds. *)
EveryCheckedInParticipantSeated ==
    (ConfirmSucceeded /\ max_rounds_arg = None) =>
        \A p \in SeqSet(IdsOf(CheckedIn(db_participants, event_id))) :
            \E r \in DOMAIN rounds : \E tid \in DOMAIN rounds[r] :
                SeatRecords(r, tid, p) # {}

(* C23: after a successful confirm_allocation with n checked-in participants
   and max_rounds omitted, the pairs co-seated at some table in some returned
   round are all n*(n-1)/2 pairs. *)
ConfirmCoversAllPairs ==
    (ConfirmSucceeded /\ max_rounds_arg = None) =>
        \A p, q \in SeqSet(IdsOf(CheckedIn(db_participants, event_id))) :
            p # q =>
                \E k \in DOMAIN round_summaries :
                    \E a \in DOMAIN round_summaries[k].allocations :
                        {p, q} \subseteq
                            SeqSet(round_summaries[k].allocations[a].participant_ids)

(* C24: every TableAllocation stored by confirm_allocation on an event belongs
   to a round of the event and references a checked-in participant of the event
   and a table of the event; participants who are not checked in never
   appear. *)
OnlyCheckedInAtOwnTables ==
    \A j \in DOMAIN db_table_allocations :
        /\ \E i \in DOMAIN db_rounds :
              /\ db_rounds[i].id = db_table_allocations[j].round_id
              /\ db_rounds[i].event_id = event_id
        /\ \E i \in DOMAIN db_participants :
              /\ db_participants[i].id = db_table_allocations[j].participant_id
              /\ db_participants[i].event_id = event_id
              /\ db_participants[i].is_present
        /\ \E i \in DOMAIN db_tables :
              /\ db_tables[i].id = db_table_allocations[j].table_id
              /\ db_tables[i].event_id = event_id

OnlyCheckedInAtOwnTablesWitness ==
    /\ ConfirmSucceeded
    /\ Len(db_table_allocations) >= 2
    /\ \E i \in DOMAIN db_participants :
          db_participants[i].event_id = event_id /\ ~db_participants[i].is_present
    /\ \E i \in DOMAIN db_participants :
          db_participants[i].event_id # event_id /\ db_participants[i].is_present
    /\ \E i \in DOMAIN db_tables : db_tables[i].event_id # event_id

(* C25: confirm_allocation on an event that does not exist answers 404, on an
   event without a checked-in participant 400, and in both cases leaves the
   stored Round and TableAllocation records as they were before the call. *)
RejectedConfirmStoresNothing ==
    /\ [][ConfirmAllocationQuery =>
            /\ (\A i \in DOMAIN db_events : db_events[i].id # event_id) =>
                  (pc' = "responded" /\ error' = "HTTP404")
            /\ ( /\ \E i \in DOMAIN db_events : db_events[i].id = event_id
                 /\ \A i \in DOMAIN db_participants :
                       ~(db_participants[i].event_id = event_id
                            /\ db_participants[i].is_present) ) =>
                  (pc' = "responded" /\ error' = "HTTP400")
            /\ error' \in {"HTTP404", "HTTP400"} =>
                  (db_rounds' = db_rounds /\ db_table_allocations' = db_table_allocations)]_vars
    /\ [](error \in {"HTTP404", "HTTP400"} => pc = "responded")

RejectedConfirmStoresNothingWitness ==
    /\ pc = "responded"
    /\ error = "HTTP400"
    /\ \E i \in DOMAIN db_events : db_events[i].id = event_id
    /\ \E i \in DOMAIN db_participants :
          db_participants[i].event_id = event_id /\ ~db_participants[i].is_present
    /\ \E i \in DOMAIN db_participants :
          db_participants[i].event_id # event_id /\ db_participants[i].is_present
    /\ requests = 2

(* the entries of a summary's allocations that are for table tid *)
EntriesFor(summary, tid) ==
    {a \in DOMAIN summary.allocations : summary.allocations[a].table_id = tid}

(* C26: after one successful confirm_allocation on an event with no earlier
   rounds, get_completed_allocations returns the summaries the confirm call
   returned: the same round numbers in order and, per round, one allocation
   entry per table, whose participant_ids are exactly the participants seated
   at that table. *)
CompletedAllocationsRoundTrip ==
    ( /\ pc = "responded"
      /\ entry = "get_completed_allocations"
      /\ requests = 2
      /\ round_summaries # <<>> ) =>
        /\ Len(completed) = Len(round_summaries)
        /\ \A k \in DOMAIN round_summaries :
              /\ k \in DOMAIN completed
              /\ completed[k].round_number = round_summaries[k].round_number
              /\ Len(completed[k].allocations) = Len(round_summaries[k].allocations)
              /\ \A a \in DOMAIN round_summaries[k].allocations :
                    LET mine == round_summaries[k].allocations[a] IN
                    /\ Cardinality(EntriesFor(completed[k], mine.table_id)) = 1
                    /\ \A b \in EntriesFor(completed[k], mine.table_id) :
                          SeqSet(completed[k].allocations[b].participant_ids)
                              = SeqSet(mine.participant_ids)

(* the locals of the first call *)
locals == <<participants, encounters, table_capacity, num_tables, max_rounds,
            round_number, rounds, pc, error>>

RECURSIVE PlansAfter(_)
(* the plans a call can return when it runs alone from the loop state s:
   s.k the round about to run, s.enc and s.plan what the rounds before it
   recorded *)
PlansAfter(s) ==
    IF ~(1 <= s.k /\ s.k <= s.mr) THEN {s.plan}
    ELSE UNION {
        LET seating == [tid \in {s.ts[i].id : i \in DOMAIN s.ts} |->
                          LET i == CHOOSE i \in DOMAIN s.ts : s.ts[i].id = tid
                          IN  PySlice(order, (i - 1) * s.ts[1].seats, i * s.ts[1].seats)]
            met == [p \in DOMAIN s.enc |->
                      s.enc[p] \cup {q \in DOMAIN s.enc :
                          q # p /\ \E tid \in DOMAIN seating :
                              {p, q} \subseteq SeqSet(seating[tid])}]
            plan == [r \in DOMAIN s.plan \cup {s.k} |->
                       IF r = s.k THEN seating ELSE s.plan[r]]
        IN  IF \A p \in DOMAIN met : Cardinality(met[p]) >= Cardinality(DOMAIN met) - 1
            THEN {plan}
            ELSE PlansAfter([s EXCEPT !.k = s.k + 1, !.enc = met, !.plan = plan])
        : order \in Shuffles(s.parts)}

(* the plans a call on these arguments can return when it runs alone; none
   when it raises *)
PlansAlone(parts, ts, arg) ==
    IF ts = <<>> THEN {}
    ELSE PlansAfter([parts |-> parts, ts |-> ts,
                     mr |-> IF arg = None THEN Len(ts) ELSE arg[1],
                     k |-> 1, enc |-> [p \in SeqSet(parts) |-> {}],
                     plan |-> <<>>])

(* C27: two calls, each with its own participant list and table list,
   interleaved round by round in any order: a step of one call leaves the
   other's encounters, round counter and plan as they are, and the plan each
   call returns is one it can return when it runs alone. *)
RunsDoNotInterfere ==
    /\ [][ /\ other' # other => locals' = locals
           /\ locals' # locals => other' = other ]_vars
    /\ []( /\ pc = "returned" =>
                 rounds \in PlansAlone(Ids(Len(participants)), tables, max_rounds_arg)
           /\ (other # None /\ other.pc = "returned") =>
                 other.rounds \in PlansAlone(Ids(Len(other.participants)),
                                             other.tables, other.max_rounds_arg) )

RunsDoNotInterfereWitness ==
    /\ pc = "returned"
    /\ other # None
    /\ other.pc = "returned"
    /\ Len(participants) = 2
    /\ NumRounds = 1
    /\ AllPairsCoSeated(1)
    /\ DOMAIN other.rounds = {1, 2}
    /\ other.participants # participants

(* C28: when all tables share one seats value and the participants are at most
   (number of tables) * seats, every round is a partition of the participants:
   each is seated at exactly one table, once; and a table is short of capacity
   only if every later table of the table order is empty. *)
EveryRoundPartitions ==
    ( /\ Len(tables) >= 1
      /\ AllSeats(tables[1].seats)
      /\ Len(participants) <= Len(tables) * tables[1].seats ) =>
        \A r \in DOMAIN rounds :
            /\ \A p \in Everyone : Cardinality(SeatsOf(rounds[r], p)) = 1
            /\ \A i, j \in DOMAIN tables :
                  (i < j /\ Len(rounds[r][tables[i].id]) < tables[1].seats) =>
                      Len(rounds[r][tables[j].id]) = 0

EveryRoundPartitionsWitness ==
    /\ PlanReturned
    /\ Len(tables) >= 2
    /\ AllSeats(tables[1].seats)
    /\ Len(participants) = 3
    /\ Len(participants) <= Len(tables) * tables[1].seats
    /\ NumRounds >= 2
    /\ \A r \in DOMAIN rounds :
          /\ Len(rounds[r][tables[1].id]) = 2
          /\ Len(rounds[r][tables[2].id]) = 1

-----------------------------------------------------------------------------
(* The participants, tables and events services: one action per request *)

MaxServiceRequests == 3
ServiceEmails == 2
ServiceSeats == 3
ServiceQuantity == 2

(* what a request to these services never touches *)
allocation == <<event_id, participants, tables, max_rounds_arg, encounters,
                table_capacity, num_tables, max_rounds, round_number, rounds,
                db_rounds, db_table_allocations, round_summaries, completed,
                other>>

(* the primary key the database gives the next row of a table *)
NextId(rows) ==
    IF rows = <<>> THEN 1
    ELSE 1 + (CHOOSE m \in {rows[i].id : i \in DOMAIN rows} :
                 \A i \in DOMAIN rows : rows[i].id <= m)

(* filter(Model.id == id).first() *)
RowById(rows, id) ==
    LET Passes(r) == r.id = id IN First(SelectSeq(rows, Passes))

(* the position of the row of this id *)
IndexOf(rows, id) == CHOOSE i \in DOMAIN rows : rows[i].id = id

(* db.delete(row) *)
Without(rows, id) ==
    LET Passes(r) == r.id # id IN SelectSeq(rows, Passes)

(* the request answered: entry is the service, error its exception or "" *)
Answer(service, err) ==
    /\ requests < MaxServiceRequests
    /\ requests' = requests + 1
    /\ entry' = service
    /\ error' = err
    /\ pc' = IF err = "" THEN "responded" ELSE "raised"
    /\ UNCHANGED allocation

(* ParticipantCreate bodies; emails and whatsapp numbers are numbered *)
ParticipantData(eventIds) ==
    [email : 1..ServiceEmails, whatsapp : 1..ServiceEmails,
     event_id : eventIds]

(* the row of the same event with this email or this whatsapp number *)
ExistingParticipant(rows, data) ==
    LET Passes(r) == /\ (r.email = data.email \/ r.whatsapp = data.whatsapp)
                     /\ r.event_id = data.event_id
    IN First(SelectSeq(rows, Passes))

CreateParticipant ==
    \E data \in ParticipantData({1, 2}) :
        IF EventById(db_events, data.event_id) = None
        THEN /\ Answer("create_participant", "HTTP400")
             /\ UNCHANGED <<db_events, db_participants, db_tables>>
        ELSE IF ExistingParticipant(db_participants, data) # None
        THEN /\ Answer("create_participant", "HTTP409")
             /\ UNCHANGED <<db_events, db_participants, db_tables>>
        ELSE /\ Answer("create_participant", "")
             /\ db_participants' = Append(db_participants,
                    ParticipantRow(NextId(db_participants), data.event_id,
                                   FALSE, data.email, data.whatsapp))
             /\ UNCHANGED <<db_events, db_tables>>

(* every field of the body is set on the row; the event of the body is one
   that exists, as the foreign key wants *)
UpdateParticipant ==
    \E participant_id \in 1..MaxServiceRequests,
       data \in ParticipantData({1}) :
        IF RowById(db_participants, participant_id) = None
        THEN /\ Answer("update_participant", "HTTP404")
             /\ UNCHANGED <<db_events, db_participants, db_tables>>
        ELSE /\ Answer("update_participant", "")
             /\ db_participants' =
                  [db_participants EXCEPT
                     ![IndexOf(db_participants, participant_id)] =
                        [@ EXCEPT !.email = data.email,
                                  !.whatsapp = data.whatsapp,
                                  !.event_id = data.event_id]]
             /\ UNCHANGED <<db_events, db_tables>>

DeleteParticipant ==
    \E participant_id \in 1..MaxServiceRequests :
        IF RowById(db_participants, participant_id) = None
        THEN /\ Answer("delete_participant", "HTTP404")
             /\ UNCHANGED <<db_events, db_participants, db_tables>>
        ELSE /\ Answer("delete_participant", "")
             /\ db_participants' = Without(db_participants, participant_id)
             /\ UNCHANGED <<db_events, db_tables>>

(* no request made yet, nothing of the allocation in play *)
InitServices ==
    /\ entry = ""
    /\ event_id = 1
    /\ participants = <<>>
    /\ tables = <<>>
    /\ max_rounds_arg = None
    /\ db_participants = <<>>
    /\ db_tables = <<>>
    /\ db_rounds = <<>>
    /\ db_table_allocations = <<>>
    /\ pc = "call"
    /\ error = ""
    /\ encounters = <<>>
    /\ table_capacity = 0
    /\ num_tables = 0
    /\ max_rounds = 0
    /\ round_number = 1
    /\ rounds = <<>>
    /\ round_summaries = <<>>
    /\ completed = <<>>
    /\ requests = 0
    /\ other = None

InitParticipants ==
    /\ InitServices
    /\ db_events = <<EventRow(1, MaxSeats)>>

NextParticipants ==
    \/ CreateParticipant
    \/ UpdateParticipant
    \/ DeleteParticipant

SpecParticipants == InitParticipants /\ [][NextParticipants]_vars

(* TableCreate bodies: seats from the schema's minimum, quantity from 1 *)
TableCreateData ==
    [event_id : {1, 2}, seats : MinTableSeats..ServiceSeats,
     quantity : 1..ServiceQuantity]

(* the rows of one create_tables call: table_number i for i in 1..quantity *)
CreatedTables(rows, data) ==
    [i \in 1..data.quantity |->
        [id |-> NextId(rows) + i - 1, event_id |-> data.event_id,
         table_number |-> i, seats |-> data.seats]]

CreateTables ==
    \E data \in TableCreateData :
        IF EventById(db_events, data.event_id) = None
        THEN /\ Answer("create_tables", "ValueError")
             /\ UNCHANGED <<db_events, db_participants, db_tables>>
        ELSE IF data.seats > EventById(db_events, data.event_id)[1].max_seats_per_table
        THEN /\ Answer("create_tables", "ValueError")
             /\ UNCHANGED <<db_events, db_participants, db_tables>>
        ELSE /\ Answer("create_tables", "")
             /\ db_tables' = db_tables \o CreatedTables(db_tables, data)
             /\ UNCHANGED <<db_events, db_participants>>

(* TableUpdate bodies; the event of the body is one that exists *)
TableUpdateData ==
    [event_id : {1}, table_number : 1..ServiceQuantity,
     seats : MinTableSeats..ServiceSeats]

UpdateTable ==
    \E table_id \in 1..(MaxServiceRequests * ServiceQuantity),
       data \in TableUpdateData :
        IF RowById(db_tables, table_id) = None
        THEN /\ Answer("update_table", "HTTP404")
             /\ UNCHANGED <<db_events, db_participants, db_tables>>
        ELSE /\ Answer("update_table", "")
             /\ db_tables' =
                  [db_tables EXCEPT ![IndexOf(db_tables, table_id)] =
                        [@ EXCEPT !.event_id = data.event_id,
                                  !.table_number = data.table_number,
                                  !.seats = data.seats]]
             /\ UNCHANGED <<db_events, db_participants>>

UpdateEvent ==
    \E id \in {1, 2}, max_seats_per_table \in MinTableSeats..ServiceSeats :
        IF EventById(db_events, id) = None
        THEN /\ Answer("update_event", "HTTP404")
             /\ UNCHANGED <<db_events, db_participants, db_tables>>
        ELSE /\ Answer("update_event", "")
             /\ db_events' =
                  [db_events EXCEPT ![IndexOf(db_events, id)] =
                        [@ EXCEPT !.max_seats_per_table = max_seats_per_table]]
             /\ UNCHANGED <<db_participants, db_tables>>

InitTables ==
    /\ InitServices
    /\ db_events \in {<<EventRow(1, m)>> : m \in MinTableSeats..ServiceSeats}

NextTables ==
    \/ CreateTables
    \/ UpdateTable
    \/ UpdateEvent

SpecTables == InitTables /\ [][NextTables]_vars

(* C29: after any sequence of create_participant, update_participant and
   delete_participant requests no two stored participants of one event share
   an email or share a whatsapp number, and a create_participant answered
   409 leaves the stored participants as they were. *)
ParticipantsUniquePerEvent ==
    /\ \A i, j \in DOMAIN db_participants :
          (i # j /\ db_participants[i].event_id = db_participants[j].event_id)
              => /\ db_participants[i].email # db_participants[j].email
                 /\ db_participants[i].whatsapp # db_participants[j].whatsapp

(* C30: after any sequence of create_tables, update_table and update_event
   requests every stored table has at most the max_seats_per_table of its
   event and the tables of one event have distinct table_number values. *)
TablesWithinLimitAndDistinct ==
    /\ \A i \in DOMAIN db_tables :
          \A e \in DOMAIN db_events :
              db_events[e].id = db_tables[i].event_id
                  => db_tables[i].seats <= db_events[e].max_seats_per_table
    /\ \A i, j \in DOMAIN db_tables :
          (i # j /\ db_tables[i].event_id = db_tables[j].event_id)
              => db_tables[i].table_number # db_tables[j].table_number

====
